---- MODULE Spec2Model ----
(***************************************************************************)
(* Model of mapchete/index.py: the generator zoom_index_gen, the index     *)
(* writer VectorFileWriter and the path helpers _index_file_path and       *)
(* _tile_path.                                                             *)
(*                                                                         *)
(* A string that is used as a path is represented by the sequence of its   *)
(* "/"-separated segments, i.e. by the value of s.split("/"):              *)
(*   "a/b"  is <<"a", "b">>,  "/a" is <<"", "a">>,  "" is <<"">>.          *)
(***************************************************************************)
EXTENDS Integers, Sequences, FiniteSets, TLC

VARIABLES
    files,          \* the disk: index path -> [isfile, recs]
    outputs,        \* tiles whose process output exists (output accessor)
    args,           \* arguments of the current zoom_index_gen call
    enum,           \* the tiles tiles_from_geom has produced for this call
    pc,             \* position of the generator frame
    index_writers,  \* the local list index_writers
    tile_path,      \* the local tile_path
    widx,           \* position of the loop over index_writers (line 115)
    cidx,           \* position of the loop over index_writers (line 121)
    exc,            \* the exception in flight, None when there is none
    close_errors,   \* number of "could not be closed" errors logged
    yielded,        \* tiles handed to the consumer by this call
    before,         \* the disk as it was when the call was made
    prev,           \* summary of the previous call
    runs            \* number of calls made so far

vars == <<files, outputs, args, enum, pc, index_writers, tile_path, widx,
          cidx, exc, close_errors, yielded, before, prev, runs>>

\* the disk and the process output
env == <<files, outputs>>
\* what a call is made with and what is remembered about earlier calls
call == <<args, before, prev, runs>>

None == "None"

\* ------------------------------------------------------------------ bounds
MaxCol == 1
MaxEnumLen == 2
MaxRuns == 2

\* ------------------------------------------------------------ environment
Zooms == {5, 6}

Tiles == [zoom : Zooms, row : {0}, col : 0..MaxCol]

OutDir == <<"", "out">>
OutputRoot == <<"s3:", "", "bucket">>
BasePaths == {None, <<"", "mnt", "data">>}
\* fieldname: None when the caller passes none
FieldNames == {None, "location"}

Range(seq) == {seq[i] : i \in DOMAIN seq}

Front(s) == SubSeq(s, 1, Len(s) - 1)
Last(s) == s[Len(s)]

\* a + b on strings, in the segment representation
StrCat(a, b) == Front(a) \o <<Last(a) \o Head(b)>> \o Tail(b)

\* str.startswith("/")
IsAbs(p) == Len(p) > 1 /\ p[1] = ""

\* os.path.join(a, b)
PathJoin(a, b) ==
    IF IsAbs(b) THEN b
    ELSE IF a = <<"">> THEN b
    ELSE IF Last(a) = "" THEN Front(a) \o b
    ELSE a \o b

\* s.split("/")[-3:]
LastThree(p) == IF Len(p) <= 3 THEN p ELSE SubSeq(p, Len(p) - 2, Len(p))

path_is_remote(p) ==
    Len(p) >= 3 /\ p[1] \in {"http:", "https:", "s3:"} /\ p[2] = ""

\* mutant: the file name does not depend on the zoom level
_index_file_path_OneFile(out_dir, zoom, ext) ==
    PathJoin(out_dir, <<"index" \o "." \o ext>>)

_index_file_path(out_dir, zoom, ext) ==
    PathJoin(out_dir, <<ToString(zoom) \o "." \o ext>>)

\* mutant: the remoteness that decides on the prefix is that of orig_path
_tile_path_RemoteOfOrig(orig_path, basepath, for_gdal) ==
    LET path == IF (IF basepath = None THEN FALSE ELSE basepath # <<"">>)
                THEN PathJoin(basepath, LastThree(orig_path))
                ELSE orig_path
    IN  IF for_gdal /\ path_is_remote(orig_path)
        THEN StrCat(<<"", "vsicurl", "">>, path)
        ELSE path

\* Python truthiness of a path argument: None and "" are false
Truthy(p) == IF p = None THEN FALSE ELSE p # <<"">>

_tile_path(orig_path, basepath, for_gdal) ==
    LET path == IF Truthy(basepath)
                THEN PathJoin(basepath, LastThree(orig_path))
                ELSE orig_path
    IN  IF for_gdal /\ path_is_remote(path)
        THEN StrCat(<<"", "vsicurl", "">>, path)
        ELSE path

\* mp.config.output.get_path(tile)
get_path(tile) ==
    OutputRoot \o <<ToString(tile.zoom), ToString(tile.row),
                    ToString(tile.col) \o ".tif">>

\* mp.config.output.tiles_exist(output_tile=tile)
tiles_exist(tile) == tile \in outputs

\* str(tile.id), tile.id being the tuple (zoom, row, col)
tile_id(tile) ==
    "(" \o ToString(tile.zoom) \o ", " \o ToString(tile.row) \o ", "
        \o ToString(tile.col) \o ")"

\* mapping(tile.bbox): the cell of the grid the tile covers
bbox(tile) == <<tile.col, tile.row, tile.col + 1, tile.row + 1>>

Exts == {"geojson", "gpkg"}
IndexPaths == {_index_file_path(OutDir, z, e) : z \in Zooms, e \in Exts}

NoFile == [isfile |-> FALSE, recs |-> <<>>]

\* ------------------------------------------------------ VectorFileWriter
\* mutant: the snapshot is keyed by the zoom of a record
RECURSIVE DictFromRecs_by_zoom(_)
DictFromRecs_by_zoom(recs) ==
    IF recs = <<>> THEN <<>>
    ELSE LET d == DictFromRecs_by_zoom(Front(recs))
             f == Last(recs)
         IN  IF \E i \in DOMAIN d : d[i].properties.zoom = f.properties.zoom
             THEN [i \in DOMAIN d |->
                    IF d[i].properties.zoom = f.properties.zoom
                    THEN f ELSE d[i]]
             ELSE Append(d, f)

\* {f["properties"]["tile_id"]: f for f in src}: a dict keeps the position
\* of the first insertion of a key and the value of the last one
RECURSIVE DictFromRecs(_)
DictFromRecs(recs) ==
    IF recs = <<>> THEN <<>>
    ELSE LET d == DictFromRecs(Front(recs))
             f == Last(recs)
         IN  IF \E i \in DOMAIN d :
                    d[i].properties.tile_id = f.properties.tile_id
             THEN [i \in DOMAIN d |->
                    IF d[i].properties.tile_id = f.properties.tile_id
                    THEN f ELSE d[i]]
             ELSE Append(d, f)

\* the I/O calls of the constructor that can raise, in program order
InitFaults(file) ==
    (IF file.isfile THEN {"read", "remove"} ELSE {}) \cup {"create", "writerecords"}

\* mutant: the snapshot is loaded and never written to the new file
VectorFileWriter_NoWriteback(out_path, fieldname, driver, file, fault, k) ==
    LET existing == IF file.isfile THEN DictFromRecs(file.recs) ELSE <<>>
        self == [driver |-> driver, path |-> out_path, existing |-> existing,
                 new_entries |-> 0, fieldname |-> fieldname, closed |-> 0]
    IN  IF driver \notin {"GeoJSON", "GPKG"}
        THEN [raised |-> "ValueError", file |-> file, self |-> self]
        ELSE IF fault \in {"read", "remove"}
        THEN [raised |-> "OpenError", file |-> file, self |-> self]
        ELSE IF fault = "create"
        THEN [raised |-> "OpenError", file |-> NoFile, self |-> self]
        ELSE [raised |-> IF fault = "writerecords" THEN "OpenError" ELSE None,
              file |-> [isfile |-> TRUE, recs |-> <<>>],
              self |-> self]

\* VectorFileWriter(out_path, crs, fieldname, driver) on the file `file`;
\* mutant: the old file is not removed and the new one does not replace it,
\* the snapshot is written after the records that were there
VectorFileWriter_NoRemove(out_path, fieldname, driver, file, fault, k) ==
    LET existing == IF file.isfile THEN DictFromRecs(file.recs) ELSE <<>>
        self == [driver |-> driver, path |-> out_path, existing |-> existing,
                 new_entries |-> 0, fieldname |-> fieldname, closed |-> 0]
    IN  IF driver \notin {"GeoJSON", "GPKG"}
        THEN [raised |-> "ValueError", file |-> file, self |-> self]
        ELSE IF fault \in {"read", "remove"}
        THEN [raised |-> "OpenError", file |-> file, self |-> self]
        ELSE IF fault = "create"
        THEN [raised |-> "OpenError", file |-> file, self |-> self]
        ELSE IF fault = "writerecords"
        THEN [raised |-> "OpenError",
              file |-> [isfile |-> TRUE,
                        recs |-> file.recs \o SubSeq(existing, 1, k)],
              self |-> self]
        ELSE [raised |-> None,
              file |-> [isfile |-> TRUE, recs |-> file.recs \o existing],
              self |-> self]

\* mutant: the driver is checked after the old file was read and removed
VectorFileWriter_LateDriverCheck(out_path, fieldname, driver, file, fault, k) ==
    LET existing == IF file.isfile THEN DictFromRecs(file.recs) ELSE <<>>
        self == [driver |-> driver, path |-> out_path, existing |-> existing,
                 new_entries |-> 0, fieldname |-> fieldname, closed |-> 0]
    IN  IF fault \in {"read", "remove"}
        THEN [raised |-> "OpenError", file |-> file, self |-> self]
        ELSE IF driver \notin {"GeoJSON", "GPKG"}
        THEN [raised |-> "ValueError", file |-> NoFile, self |-> self]
        ELSE IF fault = "create"
        THEN [raised |-> "OpenError", file |-> NoFile, self |-> self]
        ELSE IF fault = "writerecords"
        THEN [raised |-> "OpenError",
              file |-> [isfile |-> TRUE, recs |-> SubSeq(existing, 1, k)],
              self |-> self]
        ELSE [raised |-> None,
              file |-> [isfile |-> TRUE, recs |-> existing],
              self |-> self]

\* `fault` names the I/O call that raises ("none": no call raises) and k the
\* number of records that reached the file when writerecords raises.
\* An exception is named after the call that raised it.
VectorFileWriter(out_path, fieldname, driver, file, fault, k) ==
    LET existing == IF file.isfile THEN DictFromRecs(file.recs) ELSE <<>>
        self == [driver |-> driver, path |-> out_path, existing |-> existing,
                 new_entries |-> 0, fieldname |-> fieldname, closed |-> 0]
    IN  IF driver \notin {"GeoJSON", "GPKG"}
        THEN [raised |-> "ValueError", file |-> file, self |-> self]
        ELSE IF fault \in {"read", "remove"}
        THEN [raised |-> "OpenError", file |-> file, self |-> self]
        ELSE IF fault = "create"
        THEN [raised |-> "OpenError", file |-> NoFile, self |-> self]
        ELSE IF fault = "writerecords"
        THEN [raised |-> "OpenError",
              file |-> [isfile |-> TRUE, recs |-> SubSeq(existing, 1, k)],
              self |-> self]
        ELSE [raised |-> None,
              file |-> [isfile |-> TRUE, recs |-> existing],
              self |-> self]

\* mutant: tile.id in self.existing.keys(), the tuple where its string is
\* the key: no key ever equals it
entry_exists_NoStr(self, tile) == FALSE

entry_exists(self, tile) ==
    \E i \in DOMAIN self.existing :
        self.existing[i].properties.tile_id = tile_id(tile)

\* the record VectorFileWriter.write hands to file_obj.write
Feature(self, tile, path) ==
    [geometry |-> bbox(tile),
     properties |-> (self.fieldname :> path) @@
                    [tile_id |-> tile_id(tile),
                     zoom |-> ToString(tile.zoom),
                     row |-> ToString(tile.row),
                     col |-> ToString(tile.col)]]

\* mutant: a write that raises has put its record into the file
write_RecordThenRaise(self, file, tile, path, fault) ==
    IF fault
    THEN [raised |-> "WriteError",
          file |-> [file EXCEPT !.recs = Append(@, Feature(self, tile, path))],
          self |-> self]
    ELSE IF entry_exists(self, tile)
    THEN [raised |-> None, file |-> file, self |-> self]
    ELSE [raised |-> None,
          file |-> [file EXCEPT !.recs = Append(@, Feature(self, tile, path))],
          self |-> [self EXCEPT !.new_entries = @ + 1]]

\* mutant: the record of a tile that has an entry replaces the entry
write_LastWins(self, file, tile, path, fault) ==
    IF fault
    THEN [raised |-> "WriteError", file |-> file, self |-> self]
    ELSE IF entry_exists(self, tile)
    THEN [raised |-> None,
          file |-> [file EXCEPT !.recs =
                      [i \in DOMAIN @ |->
                         IF @[i].properties.tile_id = tile_id(tile)
                         THEN Feature(self, tile, path) ELSE @[i]]],
          self |-> self]
    ELSE [raised |-> None,
          file |-> [file EXCEPT !.recs = Append(@, Feature(self, tile, path))],
          self |-> [self EXCEPT !.new_entries = @ + 1]]

\* self.write(tile, path); fault = TRUE when file_obj.write raises
write(self, file, tile, path, fault) ==
    IF entry_exists(self, tile)
    THEN [raised |-> None, file |-> file, self |-> self]
    ELSE IF fault
    THEN [raised |-> "WriteError", file |-> file, self |-> self]
    ELSE [raised |-> None,
          file |-> [file EXCEPT !.recs = Append(@, Feature(self, tile, path))],
          self |-> [self EXCEPT !.new_entries = @ + 1]]

\* self.close(); fault = TRUE when file_obj.close raises
close(self, fault) ==
    [raised |-> IF fault THEN "CloseError" ELSE None,
     self |-> [self EXCEPT !.closed = @ + 1]]

\* --------------------------------------------------------- zoom_index_gen
NoArgs == [zoom |-> 0, geojson |-> FALSE, gpkg |-> FALSE, txt |-> FALSE,
           vrt |-> FALSE, fieldname |-> None, basepath |-> None,
           for_gdal |-> FALSE]

\* the zoom level of the calls that Spec explores
CallZooms == {z \in Zooms : \A y \in Zooms : z <= y}

NoPrev == [status |-> "none", args |-> NoArgs, enum |-> <<>>, outputs |-> {}]

\* tiles_from_geom(area_at_zoom(zoom), zoom): the tiles of that zoom that
\* cover the area, each of them once; `done` are those already produced
tiles_from_geom(zoom, done) ==
    {t \in Tiles : t.zoom = zoom /\ \A i \in DOMAIN done : done[i] # t}

Terminal == {"returned", "raised", "closed"}

\* the tile the for loop of line 104 is at
tile == Last(enum)

Init ==
    /\ files = [p \in IndexPaths |-> NoFile]
    /\ outputs = {}
    /\ args = NoArgs
    /\ enum = <<>>
    /\ pc = "no_generator"
    /\ index_writers = <<>>
    /\ tile_path = <<"">>
    /\ widx = 0
    /\ cidx = 0
    /\ exc = None
    /\ close_errors = 0
    /\ yielded = <<>>
    /\ before = files
    /\ prev = NoPrev
    /\ runs = 0

\* the process writes the output of one more tile, a tile of the zooms Z
ProcessOutputAt(Z) ==
    /\ pc = "no_generator"
    /\ \E t \in Tiles \ outputs : t.zoom \in Z /\ outputs' = outputs \cup {t}
    /\ UNCHANGED <<files, call, enum, pc, index_writers, tile_path, widx,
                   cidx, exc, close_errors, yielded>>

ProcessOutput == ProcessOutputAt(CallZooms)

\* zoom_index_gen(...) is called with a zoom of Z, a txt flag of T, a field
\* name of F, a basepath of B and a for_gdal flag of G: the generator object
\* is created and no line of its body runs
CallWith(Z, T, F, B, G) ==
    /\ pc = "no_generator"
    /\ runs < MaxRuns
    /\ \E zoom \in Z, geojson \in BOOLEAN, gpkg \in BOOLEAN, txt \in T,
          vrt \in BOOLEAN, fieldname \in F, basepath \in B, for_gdal \in G :
          args' = [zoom |-> zoom, geojson |-> geojson, gpkg |-> gpkg,
                   txt |-> txt, vrt |-> vrt, fieldname |-> fieldname,
                   basepath |-> basepath, for_gdal |-> for_gdal]
    /\ pc' = "not_started"
    /\ before' = files
    /\ runs' = runs + 1
    /\ UNCHANGED <<env, prev, enum, index_writers, tile_path, widx, cidx,
                   exc, close_errors, yielded>>

\* the calls of one zoom level that pass a field name and leave txt unset
Call == CallWith(CallZooms, {FALSE}, FieldNames \ {None}, BasePaths, BOOLEAN)

\* mutant: no try/finally, the exception reaches the caller at once
Raise_NoFinally(e) ==
    /\ exc' = e
    /\ pc' = "raised"
    /\ cidx' = cidx

\* an exception leaves the try block: the finally block is entered
Raise(e) ==
    /\ exc' = e
    /\ pc' = "finally"
    /\ cidx' = 1

\* mutant: the check `if not any([geojson, gpkg, vrt])` is missing
ArgsCheck_NoFormatCheck(a) ==
    IF a.vrt THEN "NotImplementedError" ELSE None

\* mutant: the check `if vrt` is missing
ArgsCheck_NoVrtCheck(a) ==
    IF ~(a.geojson \/ a.gpkg \/ a.vrt) THEN "ValueError" ELSE None

\* mutant: txt counts as a format in `any([geojson, gpkg, txt, vrt])`
ArgsCheck_TxtCounts(a) ==
    IF ~(a.geojson \/ a.gpkg \/ a.txt \/ a.vrt) THEN "ValueError"
    ELSE IF a.vrt THEN "NotImplementedError"
    ELSE None

\* lines 77-81: the exception the checks of the arguments raise
ArgsCheck(a) ==
    IF ~(a.geojson \/ a.gpkg \/ a.vrt) THEN "ValueError"
    ELSE IF a.vrt THEN "NotImplementedError"
    ELSE None

\* lines 86-99: the writers the call opens, in the order it opens them
Requested(a) ==
    (IF a.geojson THEN <<"GeoJSON">> ELSE <<>>) \o
    (IF a.gpkg THEN <<"GPKG">> ELSE <<>>)

\* first next(): lines 77-85
Start ==
    /\ pc = "not_started"
    /\ exc' = ArgsCheck(args)
    /\ pc' = IF ArgsCheck(args) # None THEN "raised" ELSE "open_geojson"
    /\ index_writers' = <<>>
    /\ UNCHANGED <<env, call, enum, tile_path, widx, cidx, close_errors,
                   yielded>>

\* lines 86-99: one `if <format>: index_writers.append(VectorFileWriter(...))`
OpenWriter(here, requested, driver, ext, there) ==
    /\ pc = here
    /\ IF requested
       THEN LET out_path == _index_file_path(OutDir, args.zoom, ext)
                file == files[out_path]
            IN  \E fault \in {"none"} \cup InitFaults(file) :
                \E k \in IF fault = "writerecords"
                         THEN 0..Len(DictFromRecs(file.recs)) ELSE {0} :
                  LET r == VectorFileWriter(out_path, args.fieldname, driver,
                                            file, fault, k)
                  IN  /\ files' = [files EXCEPT ![out_path] = r.file]
                      /\ IF r.raised # None
                         THEN /\ Raise(r.raised)
                              /\ UNCHANGED index_writers
                         ELSE /\ index_writers' = Append(index_writers, r.self)
                              /\ pc' = there
                              /\ UNCHANGED <<exc, cidx>>
       ELSE /\ pc' = there
            /\ UNCHANGED <<files, index_writers, exc, cidx>>
    /\ UNCHANGED <<outputs, call, enum, tile_path, widx, close_errors,
                   yielded>>

OpenGeoJSON ==
    OpenWriter("open_geojson", "GeoJSON" \in Range(Requested(args)),
               "GeoJSON", "geojson", "open_gpkg")

OpenGPKG ==
    OpenWriter("open_gpkg", "GPKG" \in Range(Requested(args)),
               "GPKG", "gpkg", "next_tile")

\* line 104: the for loop asks the enumeration for its next tile; the
\* enumeration produces a tile, ends, or raises
NextTile ==
    /\ pc = "next_tile"
    /\ \/ /\ Len(enum) < MaxEnumLen
          /\ \E t \in tiles_from_geom(args.zoom, enum) :
                enum' = Append(enum, t)
          /\ pc' = "tile_path"
          /\ UNCHANGED <<exc, cidx>>
       \/ /\ pc' = "finally"
          /\ cidx' = 1
          /\ UNCHANGED <<exc, enum>>
       \/ /\ Raise("EnumError")
          /\ UNCHANGED enum
    /\ UNCHANGED <<env, call, index_writers, tile_path, widx, close_errors,
                   yielded>>

\* lines 109-111
ResolvePath ==
    /\ pc = "tile_path"
    /\ \/ /\ tile_path' = _tile_path(get_path(tile), args.basepath,
                                     args.for_gdal)
          /\ pc' = "tiles_exist"
          /\ UNCHANGED <<exc, cidx>>
       \/ /\ Raise("PathError")
          /\ UNCHANGED tile_path
    /\ UNCHANGED <<env, call, enum, index_writers, widx, close_errors,
                   yielded>>

\* mutant: the writers are offered every tile, existing output or not
CheckExists_NoGate ==
    /\ pc = "tiles_exist"
    /\ \/ /\ widx' = 1
          /\ pc' = IF Len(index_writers) = 0 THEN "yield" ELSE "write"
          /\ UNCHANGED <<exc, cidx>>
       \/ /\ Raise("ExistsError")
          /\ UNCHANGED widx
    /\ UNCHANGED <<env, call, enum, index_writers, tile_path, close_errors,
                   yielded>>

\* mutant: the yield is inside the `if`, a tile without output is not yielded
CheckExists_YieldInsideIf ==
    /\ pc = "tiles_exist"
    /\ \/ /\ tiles_exist(tile)
          /\ widx' = 1
          /\ pc' = IF Len(index_writers) = 0 THEN "yield" ELSE "write"
          /\ UNCHANGED <<exc, cidx>>
       \/ /\ ~tiles_exist(tile)
          /\ pc' = "next_tile"
          /\ UNCHANGED <<exc, cidx, widx>>
       \/ /\ Raise("ExistsError")
          /\ UNCHANGED widx
    /\ UNCHANGED <<env, call, enum, index_writers, tile_path, close_errors,
                   yielded>>

\* line 114
CheckExists ==
    /\ pc = "tiles_exist"
    /\ \/ /\ tiles_exist(tile)
          /\ widx' = 1
          /\ pc' = IF Len(index_writers) = 0 THEN "yield" ELSE "write"
          /\ UNCHANGED <<exc, cidx>>
       \/ /\ ~tiles_exist(tile)
          /\ pc' = "yield"
          /\ UNCHANGED <<exc, cidx, widx>>
       \/ /\ Raise("ExistsError")
          /\ UNCHANGED widx
    /\ UNCHANGED <<env, call, enum, index_writers, tile_path, close_errors,
                   yielded>>

\* mutant: the writers after the first are handed the path of get_path, not
\* the resolved tile_path
WriteIndex_OrigPathForRest ==
    /\ pc = "write"
    /\ widx <= Len(index_writers)
    /\ \E fault \in BOOLEAN :
         LET index == index_writers[widx]
             r == write(index, files[index.path], tile,
                        IF widx = 1 THEN tile_path ELSE get_path(tile), fault)
         IN  /\ fault => r.raised # None
             /\ files' = [files EXCEPT ![index.path] = r.file]
             /\ index_writers' = [index_writers EXCEPT ![widx] = r.self]
             /\ IF r.raised # None
                THEN /\ Raise(r.raised)
                     /\ UNCHANGED widx
                ELSE /\ widx' = widx + 1
                     /\ pc' = IF widx = Len(index_writers)
                              THEN "yield" ELSE "write"
                     /\ UNCHANGED <<exc, cidx>>
    /\ UNCHANGED <<outputs, call, enum, tile_path, close_errors, yielded>>

\* mutant: the loop over the writers is left after its first pass
WriteIndex_FirstOnly ==
    /\ pc = "write"
    /\ widx <= Len(index_writers)
    /\ \E fault \in BOOLEAN :
         LET index == index_writers[widx]
             r == write(index, files[index.path], tile, tile_path, fault)
         IN  /\ fault => r.raised # None
             /\ files' = [files EXCEPT ![index.path] = r.file]
             /\ index_writers' = [index_writers EXCEPT ![widx] = r.self]
             /\ IF r.raised # None
                THEN /\ Raise(r.raised)
                     /\ UNCHANGED widx
                ELSE /\ widx' = widx + 1
                     /\ pc' = "yield"
                     /\ UNCHANGED <<exc, cidx>>
    /\ UNCHANGED <<outputs, call, enum, tile_path, close_errors, yielded>>

\* lines 115-116: one pass of `for index in index_writers`
WriteIndex ==
    /\ pc = "write"
    /\ widx <= Len(index_writers)
    /\ \E fault \in BOOLEAN :
         LET index == index_writers[widx]
             r == write(index, files[index.path], tile, tile_path, fault)
         IN  /\ fault => r.raised # None
             /\ files' = [files EXCEPT ![index.path] = r.file]
             /\ index_writers' = [index_writers EXCEPT ![widx] = r.self]
             /\ IF r.raised # None
                THEN /\ Raise(r.raised)
                     /\ UNCHANGED widx
                ELSE /\ widx' = widx + 1
                     /\ pc' = IF widx = Len(index_writers)
                              THEN "yield" ELSE "write"
                     /\ UNCHANGED <<exc, cidx>>
    /\ UNCHANGED <<outputs, call, enum, tile_path, close_errors, yielded>>

\* line 118: the frame is suspended and the consumer receives the tile
Yield ==
    /\ pc = "yield"
    /\ yielded' = Append(yielded, tile)
    /\ pc' = "suspended"
    /\ UNCHANGED <<env, call, enum, index_writers, tile_path, widx, cidx,
                   exc, close_errors>>

\* the consumer calls next() again
Resume ==
    /\ pc = "suspended"
    /\ pc' = "next_tile"
    /\ UNCHANGED <<env, call, enum, index_writers, tile_path, widx, cidx,
                   exc, close_errors, yielded>>

\* mutant: the writers are closed after the loop instead of in a finally
\* block, GeneratorExit at the yield ends the frame with no writer closed
Dispose_NoFinally ==
    /\ \/ /\ pc = "suspended"
          /\ exc' = "GeneratorExit"
          /\ pc' = "closed"
          /\ UNCHANGED cidx
       \/ /\ pc = "not_started"
          /\ pc' = "closed"
          /\ UNCHANGED <<exc, cidx>>
    /\ UNCHANGED <<env, call, enum, index_writers, tile_path, widx,
                   close_errors, yielded>>

\* the consumer disposes of the generator (generator.close()): GeneratorExit
\* is raised at the yield of a started frame, a frame that never started
\* just ends
Dispose ==
    /\ \/ /\ pc = "suspended"
          /\ Raise("GeneratorExit")
       \/ /\ pc = "not_started"
          /\ pc' = "closed"
          /\ UNCHANGED <<exc, cidx>>
    /\ UNCHANGED <<env, call, enum, index_writers, tile_path, widx,
                   close_errors, yielded>>

\* mutant: writer.close() is not wrapped in try/except, its exception leaves
\* the finally block and replaces the one in flight
CloseWriter_NoCatch ==
    /\ pc = "finally"
    /\ cidx <= Len(index_writers)
    /\ \E fault \in BOOLEAN :
         LET r == close(index_writers[cidx], fault)
         IN  /\ index_writers' = [index_writers EXCEPT ![cidx] = r.self]
             /\ IF r.raised # None
                THEN exc' = r.raised /\ pc' = "raised"
                ELSE UNCHANGED <<exc, pc>>
    /\ cidx' = cidx + 1
    /\ UNCHANGED <<env, call, enum, tile_path, widx, close_errors, yielded>>

\* lines 121-127: one pass of `for writer in index_writers`; an exception of
\* writer.close() is caught and logged
CloseWriter ==
    /\ pc = "finally"
    /\ cidx <= Len(index_writers)
    /\ \E fault \in BOOLEAN :
         LET r == close(index_writers[cidx], fault)
         IN  /\ index_writers' = [index_writers EXCEPT ![cidx] = r.self]
             /\ close_errors' = IF r.raised # None THEN close_errors + 1
                                ELSE close_errors
    /\ cidx' = cidx + 1
    /\ UNCHANGED <<env, call, enum, pc, tile_path, widx, exc, yielded>>

\* the finally block is left: the exception in flight, if any, goes on
EndFinally ==
    /\ pc = "finally"
    /\ cidx > Len(index_writers)
    /\ pc' = IF exc = None THEN "returned"
             ELSE IF exc = "GeneratorExit" THEN "closed"
             ELSE "raised"
    /\ UNCHANGED <<env, call, enum, index_writers, tile_path, widx, cidx,
                   exc, close_errors, yielded>>

\* the caller is done with the generator object; `summary` says whether a
\* summary of a call that returned is kept for the call that follows
FinishWith(summary) ==
    /\ pc \in Terminal
    /\ prev' = IF summary /\ pc = "returned"
               THEN [status |-> pc, args |-> args, enum |-> enum,
                     outputs |-> outputs]
               ELSE NoPrev
    /\ pc' = "no_generator"
    /\ args' = NoArgs
    /\ enum' = <<>>
    /\ index_writers' = <<>>
    /\ tile_path' = <<"">>
    /\ widx' = 0
    /\ cidx' = 0
    /\ exc' = None
    /\ close_errors' = 0
    /\ yielded' = <<>>
    /\ before' = files
    /\ UNCHANGED <<env, runs>>

Finish == FinishWith(TRUE)

Next ==
    \/ ProcessOutput
    \/ Call
    \/ Start
    \/ OpenGeoJSON
    \/ OpenGPKG
    \/ NextTile
    \/ ResolvePath
    \/ CheckExists
    \/ WriteIndex
    \/ Yield
    \/ Resume
    \/ Dispose
    \/ CloseWriter
    \/ EndFinally
    \/ Finish

Spec == Init /\ [][Next]_vars

TypeOK ==
    /\ pc \in {"no_generator", "not_started", "open_geojson", "open_gpkg",
               "next_tile", "tile_path", "tiles_exist", "write", "yield",
               "suspended", "finally"} \cup Terminal
    /\ outputs \subseteq Tiles
    /\ Len(enum) <= MaxEnumLen
    /\ runs \in 0..MaxRuns

\* --------------------------------------------- every argument of a call
\* SpecArgs makes the calls of zoom_index_gen with every zoom, with and
\* without txt and with and without a field name, all of them without
\* basepath and with for_gdal set, in an environment where no call of a
\* collaborator (enumeration, output, fiona) raises.  It keeps no summary
\* of the previous call.
NoFault ==
    /\ exc \in {None, "ValueError", "NotImplementedError", "GeneratorExit"}
    /\ close_errors = 0

NextArgs ==
    /\ \/ ProcessOutputAt(Zooms)
       \/ CallWith(Zooms, BOOLEAN, FieldNames, {None}, {TRUE})
       \/ Start
       \/ OpenGeoJSON
       \/ OpenGPKG
       \/ NextTile
       \/ ResolvePath
       \/ CheckExists
       \/ WriteIndex
       \/ Yield
       \/ Resume
       \/ Dispose
       \/ CloseWriter
       \/ EndFinally
       \/ FinishWith(FALSE)
    /\ NoFault'

SpecArgs == Init /\ [][NextArgs]_vars

\* ------------------------------------------- the writer used on its own
\* SpecWriter drives VectorFileWriter through its public methods, with any
\* driver, any tile and any path, as a caller other than zoom_index_gen may.
\* Here pc is "direct", enum lists the tiles passed to write so far, widx is
\* the writer the last write went to, exc is the exception the last call
\* raised, runs counts the writers constructed, before[p] is the file the
\* constructor of the last writer on p found, and args are the arguments of
\* the last call when it was a call of the constructor.
MaxWrites == 2

NoInitArgs == [out_path |-> <<"">>, fieldname |-> None, driver |-> None]

\* the drivers a caller passes: the two the class allows and one it does not
Drivers == {"GeoJSON", "GPKG", "ESRI Shapefile"}

WriterTiles == {t \in Tiles : t.zoom \in CallZooms}

WriterPaths == {_index_file_path(OutDir, z, e) : z \in CallZooms, e \in Exts}

TilePaths ==
    {_tile_path(get_path(t), b, g) :
        t \in WriterTiles, b \in BasePaths, g \in BOOLEAN}

InitWriter ==
    /\ files = [p \in IndexPaths |-> NoFile]
    /\ outputs = {}
    /\ args = NoInitArgs
    /\ enum = <<>>
    /\ pc = "direct"
    /\ index_writers = <<>>
    /\ tile_path = <<"">>
    /\ widx = 0
    /\ cidx = 0
    /\ exc = None
    /\ close_errors = 0
    /\ yielded = <<>>
    /\ before = files
    /\ prev = NoPrev
    /\ runs = 0

\* VectorFileWriter(...) on a path no open writer owns
Construct ==
    /\ pc = "direct"
    /\ runs < MaxRuns
    /\ \E driver \in Drivers, out_path \in WriterPaths,
          fieldname \in FieldNames \ {None} :
         LET file == files[out_path]
         IN  /\ \A i \in DOMAIN index_writers :
                    index_writers[i].path = out_path
                        => index_writers[i].closed > 0
             /\ \E fault \in {"none"} \cup InitFaults(file) :
                \E k \in IF fault = "writerecords"
                         THEN 0..Len(DictFromRecs(file.recs)) ELSE {0} :
                  LET r == VectorFileWriter(out_path, fieldname, driver, file,
                                            fault, k)
                  IN  /\ files' = [files EXCEPT ![out_path] = r.file]
                      /\ exc' = r.raised
                      /\ args' = [out_path |-> out_path,
                                  fieldname |-> fieldname, driver |-> driver]
                      /\ IF r.raised = None
                         THEN /\ index_writers' = Append(index_writers, r.self)
                              /\ before' = [before EXCEPT ![out_path] = file]
                              /\ runs' = runs + 1
                         ELSE UNCHANGED <<index_writers, before, runs>>
    /\ UNCHANGED <<outputs, enum, pc, tile_path, widx, cidx,
                   close_errors, yielded, prev>>

\* writer.write(tile, path) on an open writer
CallWrite ==
    /\ pc = "direct"
    /\ Len(enum) < MaxWrites
    /\ \E i \in DOMAIN index_writers, t \in WriterTiles, path \in TilePaths,
          fault \in BOOLEAN :
         LET self == index_writers[i]
             r == write(self, files[self.path], t, path, fault)
         IN  /\ self.closed = 0
             /\ fault => r.raised # None
             /\ files' = [files EXCEPT ![self.path] = r.file]
             /\ index_writers' = [index_writers EXCEPT ![i] = r.self]
             /\ exc' = r.raised
             /\ enum' = Append(enum, t)
             /\ widx' = i
             /\ tile_path' = path
    /\ args' = NoInitArgs
    /\ UNCHANGED <<outputs, pc, cidx, close_errors, yielded, before, prev,
                   runs>>

\* writer.close() on an open writer
CallClose ==
    /\ pc = "direct"
    /\ \E i \in DOMAIN index_writers, fault \in BOOLEAN :
         LET r == close(index_writers[i], fault)
         IN  /\ index_writers[i].closed = 0
             /\ index_writers' = [index_writers EXCEPT ![i] = r.self]
             /\ exc' = r.raised
    /\ args' = NoInitArgs
    /\ UNCHANGED <<files, outputs, enum, pc, tile_path, widx, cidx,
                   close_errors, yielded, before, prev, runs>>

NextWriter ==
    \/ Construct
    \/ CallWrite
    \/ CallClose

SpecWriter == InitWriter /\ [][NextWriter]_vars

\* ------------------------------------------- _tile_path used on its own
\* SpecTilePath applies _tile_path to one triple of arguments.  Here args
\* are the arguments of _tile_path and tile_path is what it returned.
OrigRoots ==
    {OutputRoot, <<"", "mnt", "out">>, <<"https:", "", "host", "a">>, <<"out">>}

\* paths of tile outputs, <root>/<zoom>/<row>/<col>.tif and one without root
OrigPaths ==
    {r \o LastThree(get_path(t)) : r \in OrigRoots, t \in Tiles}
        \cup {LastThree(get_path(t)) : t \in Tiles}

\* the basepaths "", "/mnt/data/", "https://host/tiles" and "s3://other"
MoreBasePaths ==
    {<<"">>, <<"", "mnt", "data", "">>, <<"https:", "", "host", "tiles">>,
     <<"s3:", "", "other">>}

InitTilePath ==
    /\ files = [p \in IndexPaths |-> NoFile]
    /\ outputs = {}
    /\ \E o \in OrigPaths, g \in BOOLEAN :
          \/ \E b \in BasePaths :
                args = [orig_path |-> o, basepath |-> b, for_gdal |-> g]
          \/ \E b \in MoreBasePaths :
                args = [orig_path |-> o, basepath |-> b, for_gdal |-> g]
    /\ enum = <<>>
    /\ pc = "_tile_path"
    /\ index_writers = <<>>
    /\ tile_path = <<"">>
    /\ widx = 0
    /\ cidx = 0
    /\ exc = None
    /\ close_errors = 0
    /\ yielded = <<>>
    /\ before = files
    /\ prev = NoPrev
    /\ runs = 0

ApplyTilePath ==
    /\ pc = "_tile_path"
    /\ tile_path' = _tile_path(args.orig_path, args.basepath, args.for_gdal)
    /\ pc' = "done"
    /\ UNCHANGED <<env, call, enum, index_writers, widx, cidx, exc,
                   close_errors, yielded>>

NextTilePath == ApplyTilePath

SpecTilePath == InitTilePath /\ [][NextTilePath]_vars

\* ----------------------------------------------------------- properties
Ids(recs) == {recs[i].properties.tile_id : i \in DOMAIN recs}

Count(recs, r) == Cardinality({i \in DOMAIN recs : recs[i] = r})

\* the same entries, the same number of times each
SameEntries(a, b) ==
    /\ Len(a) = Len(b)
    /\ \A r \in Range(a) : Count(a, r) = Count(b, r)

UniqueIds(recs) ==
    \A i, j \in DOMAIN recs :
        i # j => recs[i].properties.tile_id # recs[j].properties.tile_id

\* a writer of the current call owns the artifact at path p
Opened(p) == \E i \in DOMAIN index_writers : index_writers[i].path = p

AllClosedOnce == \A i \in DOMAIN index_writers : index_writers[i].closed = 1

\* C1: however a call of zoom_index_gen ends (enumeration exhausted, an
\* exception of the enumeration, of get_path, of tiles_exist or of a write,
\* or the consumer closing the generator), close() has been called exactly
\* once on every writer that was opened, and close() is called on no writer
\* before the iteration has ended.
C1_ClosedExactlyOnce ==
    /\ \A i \in DOMAIN index_writers :
         /\ index_writers[i].closed <= 1
         /\ index_writers[i].closed = 1 => pc \in {"finally"} \cup Terminal
    /\ pc \in Terminal => AllClosedOnce

C1_Witness ==
    /\ pc = "closed"
    /\ exc = "GeneratorExit"
    /\ Len(index_writers) = 2
    /\ AllClosedOnce
    /\ Len(yielded) = 1

\* C2: no two records of an index artifact share a tile_id, whatever
\* artifacts were there before and whatever calls of zoom_index_gen wrote.
C2_TileIdUnique == \A p \in IndexPaths : UniqueIds(files[p].recs)

C2_Witness ==
    /\ runs = 2
    /\ pc = "returned"
    /\ \E p \in IndexPaths :
         /\ Opened(p)
         /\ Len(before[p].recs) = 1
         /\ Len(files[p].recs) = 2
         /\ Ids(before[p].recs) \subseteq {tile_id(t) : t \in Range(enum)}

\* C3: write(tile, path) appends nothing when the artifact of the writer
\* already holds a record with the tile_id of the tile, whether the record
\* came from the snapshot or from an earlier write of the same writer.
C3_WriteNoOpIfPresent ==
    [][(pc = "direct" /\ enum' # enum /\ widx' \in DOMAIN index_writers
        /\ tile_id(Last(enum')) \in Ids(files[index_writers[widx'].path].recs))
       => files' = files]_vars

Rerun ==
    /\ pc = "returned"
    /\ prev.status = "returned"
    /\ prev.args.zoom = args.zoom
    /\ prev.args.geojson = args.geojson
    /\ prev.args.gpkg = args.gpkg
    /\ prev.enum = enum
    /\ prev.outputs = outputs

\* C5: idempotence.  A completed call that repeats the completed previous
\* call leaves every artifact with the entries it had after the previous
\* call: same count, same tile_ids, same field values.
C5_Idempotent ==
    Rerun => \A p \in IndexPaths : SameEntries(files[p].recs, before[p].recs)

C5_Witness ==
    /\ Rerun
    /\ Len(enum) = 2
    /\ \E p \in IndexPaths : Opened(p) /\ Len(files[p].recs) >= 1
    /\ prev.args.basepath # args.basepath

\* the tiles of the enumeration that have an output and no entry yet
NewTiles(p) ==
    {k \in DOMAIN enum :
        tiles_exist(enum[k]) /\ tile_id(enum[k]) \notin Ids(before[p].recs)}

\* C6: merge arithmetic.  After a completed call an artifact that held N
\* entries holds N + M, M being the number of enumerated tiles that have an
\* output and whose tile_id is not among the N, and the N come first,
\* unchanged.
C6_MergeArithmetic ==
    pc = "returned" =>
        \A p \in IndexPaths : Opened(p) =>
            LET N == Len(before[p].recs)
                M == Cardinality(NewTiles(p))
            IN  /\ Len(files[p].recs) = N + M
                /\ SubSeq(files[p].recs, 1, N) = before[p].recs

C6_Witness ==
    /\ pc = "returned"
    /\ prev.status = "returned"
    /\ Cardinality(outputs \ prev.outputs) = 1
    /\ \E p \in IndexPaths :
         /\ Opened(p)
         /\ Len(before[p].recs) = 1
         /\ Cardinality(NewTiles(p)) = 1
         /\ Len(files[p].recs) = 2

\* C7: existence gating.  Every record an artifact gained during the call is
\* the record of an enumerated tile whose output exists.
C7_ExistenceGating ==
    \A p \in IndexPaths : \A r \in Range(files[p].recs) :
        r \notin Range(before[p].recs) =>
            \E t \in Range(enum) :
                tiles_exist(t) /\ r.properties.tile_id = tile_id(t)

C7_Witness ==
    /\ pc = "returned"
    /\ Len(enum) = 2
    /\ \E t \in Range(yielded) : ~tiles_exist(t)
    /\ \E p \in IndexPaths :
         /\ Opened(p)
         /\ Len(before[p].recs) = 0
         /\ Len(files[p].recs) = 1

\* C8: a call consumed to its end without error has yielded the tiles of the
\* enumeration, each once and in the order of the enumeration, whether the
\* output of a tile exists or not and whether the tile had an entry or not.
C8_YieldsEnumeration ==
    /\ pc = "returned" => yielded = enum
    /\ Len(yielded) <= Len(enum)
    /\ yielded = SubSeq(enum, 1, Len(yielded))

C8_Witness ==
    /\ pc = "returned"
    /\ Len(yielded) = 2
    /\ \E t \in Range(yielded) : ~tiles_exist(t)
    /\ \E t \in Range(yielded) : \E p \in IndexPaths :
         Opened(p) /\ tile_id(t) \in Ids(before[p].recs)

\* C9: an exception of a close() is caught.  close() is still called on the
\* writers that follow, the exception that reaches the caller is the one the
\* iteration ended with, never the one of close(), and a call whose
\* iteration ended without exception ends without one.
C9_CloseFailureCaught ==
    pc \in Terminal =>
        /\ exc # "CloseError"
        /\ AllClosedOnce
        /\ (exc = None /\ Len(index_writers) > 0) => pc = "returned"
        /\ pc = "raised" <=> exc \notin {None, "GeneratorExit"}

C9_Witness ==
    /\ pc = "raised"
    /\ exc = "WriteError"
    /\ Len(index_writers) = 2
    /\ close_errors = 2
    /\ AllClosedOnce

\* C10: when the construction of a writer or a write raises, the exception
\* reaches the caller after close() was called on every writer opened before,
\* and no tile is yielded after the failure.
C10_FailurePropagatesAfterClose ==
    /\ (pc = "raised" /\ exc \in {"OpenError", "WriteError"}) => AllClosedOnce
    /\ exc = "OpenError" => yielded = <<>>
    /\ exc = "WriteError" => yielded = Front(enum)

C10_Witness ==
    /\ pc = "raised"
    /\ exc = "OpenError"
    /\ Len(index_writers) = 1
    /\ index_writers[1].driver = "GeoJSON"
    /\ index_writers[1].closed = 1


\* C11: a call that requests none of geojson, gpkg and vrt ends its first
\* next() with ValueError, and from the call to its end no writer is opened,
\* no index file is removed, created or changed, no tile is enumerated and
\* none is yielded.
C11_NoFormatValueError ==
    (pc # "no_generator" /\ ~(args.geojson \/ args.gpkg \/ args.vrt)) =>
        /\ pc \in {"not_started", "raised", "closed"}
        /\ pc = "raised" => exc = "ValueError"
        /\ pc # "raised" => exc = None
        /\ index_writers = <<>>
        /\ files = before
        /\ enum = <<>>
        /\ yielded = <<>>

C11_Witness ==
    /\ pc = "raised"
    /\ exc = "ValueError"
    /\ ~(args.geojson \/ args.gpkg \/ args.vrt)
    /\ \E e \in Exts :
         files[_index_file_path(OutDir, args.zoom, e)].recs # <<>>

LastOfId(old, r) ==
    \E j \in DOMAIN old :
        /\ old[j] = r
        /\ \A k \in DOMAIN old :
               k > j => old[k].properties.tile_id # r.properties.tile_id

\* C17: the constructor of a writer loads the records of the file at its
\* path into the snapshot, one per tile_id and each unchanged, and the new
\* file starts with the snapshot: it is the snapshot right after the
\* constructor and gains one record per new entry afterwards.  Without a file
\* at the path the snapshot is empty and so is the new file.
C17_OpenLoadsSnapshot ==
    \A i \in DOMAIN index_writers :
        LET w == index_writers[i]
            old == before[w.path]
            recs == files[w.path].recs
        IN  w.closed = 0 =>
                /\ UniqueIds(w.existing)
                /\ Ids(w.existing) = Ids(old.recs)
                /\ \A r \in Range(w.existing) : LastOfId(old.recs, r)
                /\ ~old.isfile => w.existing = <<>>
                /\ files[w.path].isfile
                /\ Len(recs) = Len(w.existing) + w.new_entries
                /\ SubSeq(recs, 1, Len(w.existing)) = w.existing

C17_Witness ==
    /\ pc = "direct"
    /\ exc = None
    /\ args.driver = "GPKG"
    /\ LET w == Last(index_writers)
       IN  /\ w.path = args.out_path
           /\ w.new_entries = 0
           /\ Len(before[w.path].recs) = 2
           /\ Len(w.existing) = 2
           /\ files[w.path].recs = before[w.path].recs

\* C18: a call of the constructor with a driver other than GeoJSON and GPKG
\* raises ValueError, constructs no writer and leaves every file as it was:
\* the file at out_path is not removed, not replaced and not created.
C18_InvalidDriverRejected ==
    [][args'.driver \notin {None, "GeoJSON", "GPKG"} =>
          /\ exc' = "ValueError"
          /\ files' = files
          /\ index_writers' = index_writers]_vars

C18_Witness ==
    /\ pc = "direct"
    /\ args.driver = "ESRI Shapefile"
    /\ exc = "ValueError"
    /\ files[args.out_path].isfile
    /\ Len(files[args.out_path].recs) = 2

\* the artifact of writer i holds a record of tile t
Indexed(i, t) == tile_id(t) \in Ids(files[index_writers[i].path].recs)

\* C19: nothing happens between the call and the first next(); when a tile
\* is yielded every requested writer is open and holds a record of it if its
\* output exists, and the enumeration has produced no tile after it; for
\* one tile the path is resolved, then the output is looked up, then the
\* writers are written to in their order, then the tile is yielded.
C19_LazyInOrder ==
    /\ pc = "not_started" =>
          /\ exc = None
          /\ files = before
          /\ index_writers = <<>>
          /\ enum = <<>>
          /\ yielded = <<>>
    /\ pc = "suspended" =>
          /\ yielded = enum
          /\ Len(index_writers) = Len(Requested(args))
          /\ tiles_exist(tile) =>
                \A i \in DOMAIN index_writers : Indexed(i, tile)
    /\ pc \in {"tile_path", "tiles_exist", "write", "yield"} =>
          /\ yielded = Front(enum)
          /\ \A t \in Range(yielded) : t # tile
    /\ pc \in {"tiles_exist", "write", "yield"} =>
          tile_path = _tile_path(get_path(tile), args.basepath, args.for_gdal)
    /\ pc = "write" =>
          /\ tiles_exist(tile)
          /\ \A i \in DOMAIN index_writers : i < widx => Indexed(i, tile)
    /\ pc \in {"tile_path", "tiles_exist"} =>
          \A i \in DOMAIN index_writers :
              Indexed(i, tile) => tile_id(tile) \in Ids(index_writers[i].existing)

C19_Witness ==
    /\ pc = "suspended"
    /\ Len(yielded) = 1
    /\ Len(index_writers) = 2
    /\ tiles_exist(tile)
    /\ \A i \in DOMAIN index_writers :
         /\ index_writers[i].new_entries = 1
         /\ Indexed(i, tile)
    /\ \E t \in outputs :
         /\ t.zoom = args.zoom
         /\ t # tile
         /\ \A i \in DOMAIN index_writers : ~Indexed(i, t)

\* the call was aborted after its writers were opened: the iteration raised,
\* or the consumer disposed of the generator at a yield
Aborted ==
    /\ pc \in {"raised", "closed"}
    /\ exc \in {"EnumError", "PathError", "ExistsError", "WriteError",
                "GeneratorExit"}

\* the artifact at p is what it was before the call, followed by one record
\* for each tile of ts that has an output and had no entry
MergedWith(p, ts) ==
    LET N == Len(before[p].recs)
        recs == files[p].recs
        new == {tile_id(t) : t \in {u \in ts : tiles_exist(u)}}
                   \ Ids(before[p].recs)
    IN  /\ Len(recs) = N + Cardinality(new)
        /\ SubSeq(recs, 1, N) = before[p].recs
        /\ Ids(recs) = Ids(before[p].recs) \cup new

\* C20 as stated: after an aborted call there is one set of tiles, those
\* processed before the abort (the tiles yielded, or the tiles enumerated),
\* such that every artifact of the call is its old content followed by one
\* new entry per tile of the set that has an output and had no entry.
C20_AbortedKeepsProcessed ==
    Aborted =>
        \E ts \in {Range(yielded), Range(enum)} :
            \A i \in DOMAIN index_writers :
                MergedWith(index_writers[i].path, ts)

\* C20, amended: after an aborted call every artifact of the call is its old
\* content followed by one new entry per yielded tile that has an output and
\* had no entry, and, when the abort is a write that raised, the artifacts of
\* the writers before the one that raised also hold the entry of the tile
\* that was being written.  No entry an artifact had before the call is lost.
C20_AbortedKeepsEntries ==
    Aborted =>
        /\ Len(index_writers) = Len(Requested(args))
        /\ \A i \in DOMAIN index_writers :
               MergedWith(index_writers[i].path,
                          Range(yielded) \cup
                              (IF exc = "WriteError" /\ i < widx
                               THEN {tile} ELSE {}))

C20_Witness ==
    /\ pc = "raised"
    /\ exc = "WriteError"
    /\ widx = 2
    /\ Len(yielded) = 1
    /\ Len(before[index_writers[1].path].recs) = 1
    /\ Len(before[index_writers[2].path].recs) = 1
    /\ Len(files[index_writers[1].path].recs) = 2
    /\ Len(files[index_writers[2].path].recs) = 1

\* basepath + "/" + the last three segments of orig_path, the "/" left out
\* after a basepath that ends with one
Rebased(orig_path, basepath) ==
    (IF Last(basepath) = "" THEN Front(basepath) ELSE basepath)
        \o SubSeq(orig_path, Len(orig_path) - 2, Len(orig_path))

\* C15: _tile_path returns orig_path, or with a basepath (one that is not
\* None and not "") the basepath joined with the last three segments of
\* orig_path, and puts "/vsicurl/" in front of it exactly when for_gdal is
\* set and that path, the rewritten one, is remote.
C15_TilePath ==
    pc = "done" =>
        LET given == IF args.basepath = None THEN FALSE
                     ELSE args.basepath # <<"">>
            path == IF given THEN Rebased(args.orig_path, args.basepath)
                    ELSE args.orig_path
        IN  IF args.for_gdal /\ path_is_remote(path)
            THEN /\ Len(tile_path) = Len(path) + 2
                 /\ tile_path[1] = ""
                 /\ tile_path[2] = "vsicurl"
                 /\ SubSeq(tile_path, 3, Len(tile_path)) = path
            ELSE tile_path = path

C15_Witness ==
    /\ pc = "done"
    /\ args.for_gdal
    /\ args.basepath # None
    /\ args.basepath = <<"https:", "", "host", "tiles">>
    /\ args.orig_path = <<"", "mnt", "out", "5", "0", "1.tif">>
    /\ tile_path = <<"", "vsicurl", "https:", "", "host", "tiles",
                     "5", "0", "1.tif">>

\* C13: every record of the index file of zoom level Z, <out_dir>/Z.<ext>,
\* is the record of a tile of zoom level Z, whether the constructor of a
\* writer wrote it back from the snapshot or a write appended it.
C13_ZoomOfArtifact ==
    \A z \in Zooms, e \in Exts :
        \A r \in Range(files[_index_file_path(OutDir, z, e)].recs) :
            r.properties.zoom = ToString(z)

C13_Witness ==
    /\ pc = "returned"
    /\ runs = 2
    /\ \E z \in Zooms, e \in Exts :
         LET p == _index_file_path(OutDir, z, e)
         IN  /\ z = args.zoom
             /\ Opened(p)
             /\ Len(before[p].recs) = 1
             /\ Len(files[p].recs) = 2
    /\ \E z \in Zooms, e \in Exts :
         /\ z # args.zoom
         /\ files[_index_file_path(OutDir, z, e)] = NoFile

C16_DefaultFieldName ==
    \A p \in IndexPaths : \A r \in Range(files[p].recs) :
        "location" \in DOMAIN r.properties

\* the records the artifact at p gained during the call
Added(p) ==
    SubSeq(files[p].recs, Len(before[p].recs) + 1, Len(files[p].recs))

\* C21: fan-out consistency.  After a completed call that requested geojson
\* and gpkg, every record one artifact gained is the record of an enumerated
\* tile with an output, stored with the path resolved for the tile, the same
\* in both artifacts; a tile_id that one artifact gained and the other did
\* not is one the other held before the call and the first did not; and two
\* artifacts that held the same tile_ids before the call (or did not exist)
\* hold the same tile_ids after it.
C21_FanOutConsistent ==
    (pc = "returned" /\ args.geojson /\ args.gpkg) =>
        /\ Len(index_writers) = 2
        /\ \A i, j \in DOMAIN index_writers :
             LET p == index_writers[i].path
                 q == index_writers[j].path
             IN  /\ \A r \in Range(Added(p)) :
                      /\ \E t \in Range(enum) :
                           /\ tiles_exist(t)
                           /\ r.properties.tile_id = tile_id(t)
                           /\ r.properties[args.fieldname] =
                                  _tile_path(get_path(t), args.basepath,
                                             args.for_gdal)
                      /\ \A u \in Range(Added(q)) :
                           u.properties.tile_id = r.properties.tile_id
                               => u.properties = r.properties
                      /\ r.properties.tile_id \notin Ids(Added(q)) =>
                           /\ r.properties.tile_id \in Ids(before[q].recs)
                           /\ r.properties.tile_id \notin Ids(before[p].recs)
                 /\ Ids(before[p].recs) = Ids(before[q].recs) =>
                      /\ Ids(Added(p)) = Ids(Added(q))
                      /\ Ids(files[p].recs) = Ids(files[q].recs)

C21_Witness ==
    /\ pc = "returned"
    /\ args.geojson /\ args.gpkg
    /\ args.for_gdal
    /\ Len(yielded) = 2
    /\ LET p == _index_file_path(OutDir, args.zoom, "geojson")
           q == _index_file_path(OutDir, args.zoom, "gpkg")
       IN  /\ Len(before[p].recs) = 1
           /\ Ids(before[p].recs) = Ids(before[q].recs)
           /\ Len(Added(p)) = 1
           /\ Len(Added(q)) = 1
           /\ Added(p)[1].properties = Added(q)[1].properties
           /\ Added(p)[1].properties.tile_id \notin Ids(before[p].recs)
====
